---- MODULE Spec2Model ----
(***************************************************************************)
(* Model of the todo HTTP service: the Todo entity (models/Todo.ts) over   *)
(* the `todos` table and a pool of reserved connections, and the six       *)
(* TodoController handlers.  A handler is an async function: it runs       *)
(* atomically up to its next `await` of a storage query, so a request is   *)
(* a sequence of steps (begin, one step per query, one per release) that   *)
(* interleave with the steps of the other requests in flight.              *)
(***************************************************************************)
EXTENDS Integers, Sequences, FiniteSets, TLC

\* ---------------------------------------------------------------- bounds
MaxId == 2          \* rows the table ever gets (serial ids 1..MaxId)
MaxTime == 2        \* the clock reads 1..MaxTime
MaxFaults == 1      \* storage errors (failed reserve or query) per run
MaxRequests == 3    \* requests accepted per run
PoolMax == 2        \* connections the pool hands out before sql.reserve() waits

Procs == {"r1", "r2"}      \* requests in flight at once

\* ---------------------------------------------------------------- values
\* A Date is a one-element tuple <<t>>; SQL NULL / JS null is the empty tuple.
NULL == <<>>
Date(t) == <<t>>
\* The value of a missing key of req.body or of the query string.
undefined == "<undefined>"
\* req.getId() of a path segment that is not a number.
NaN == -1
isNaN(id) == id = NaN

StatusCode ==
    [OK |-> 200, Created |-> 201, BadRequest |-> 400, NotFound |-> 404,
     InternalServerError |-> 500]

\* JS truthiness of a string-or-undefined value.
Truthy(v) == v # undefined /\ v # ""

\* ---------------------------------------------------------------- case converter
\* The field names the converters meet, in either case.
KeyNames ==
    {"id", "title", "description", "status", "dueAt", "createdAt",
     "completedAt", "editedAt", "due_at", "created_at", "completed_at",
     "edited_at"}

camelToSnake ==
    [k \in KeyNames |->
        CASE k = "dueAt" -> "due_at"
          [] k = "createdAt" -> "created_at"
          [] k = "completedAt" -> "completed_at"
          [] k = "editedAt" -> "edited_at"
          [] OTHER -> k]

snakeToCamel ==
    [k \in KeyNames |->
        CASE k = "due_at" -> "dueAt"
          [] k = "created_at" -> "createdAt"
          [] k = "completed_at" -> "completedAt"
          [] k = "edited_at" -> "editedAt"
          [] OTHER -> k]

\* A new mapping with every key transformed by conv, values untouched.
convertToCase(conv, m) ==
    [k2 \in {conv[k] : k \in DOMAIN m} |->
        m[CHOOSE k \in DOMAIN m : conv[k] = k2]]

\* ---------------------------------------------------------------- the table
Columns ==
    {"id", "title", "description", "status", "due_at", "created_at",
     "completed_at", "edited_at"}

\* The value a column gets when an INSERT does not name it.
ColumnDefault(c) == IF c = "status" THEN "incomplete" ELSE NULL

\* NOT NULL columns: a statement that gives one of them no value fails.
RequiredColumns == {"title", "description"}

\* The row INSERT INTO todos ${sql(cols)} stores under a fresh id.
InsertRow(id, cols) ==
    [c \in Columns |->
        IF c = "id" THEN id
        ELSE IF c \in DOMAIN cols THEN cols[c] ELSE ColumnDefault(c)]

\* Whether the INSERT is rejected: an undefined parameter or a NOT NULL violation.
InsertFails(cols) ==
    \/ \E c \in DOMAIN cols : cols[c] = undefined
    \/ ~(RequiredColumns \subseteq DOMAIN cols)

\* UPDATE todos SET ${sql(cols)}, edited_at = ${t}: only the named columns change.
UpdateRow(row, cols, t) ==
    [c \in Columns |->
        IF c = "edited_at" THEN Date(t)
        ELSE IF c \in DOMAIN cols THEN cols[c] ELSE row[c]]

\* DELETE FROM todos WHERE id = ${id}: the table left and result.count.
DeleteRow(table, id) ==
    [table |-> [i \in DOMAIN table \ {id} |-> table[i]],
     count |-> IF id \in DOMAIN table THEN 1 ELSE 0]

\* ---------------------------------------------------------------- Todo.readAll
getSortBy(sortBy) ==
    CASE sortBy = "title" -> "title"
      [] sortBy = "description" -> "description"
      [] sortBy = "status" -> "status"
      [] sortBy = "dueAt" -> "due_at"
      [] sortBy = "createdAt" -> "created_at"
      [] sortBy = "completedAt" -> "completed_at"
      [] sortBy = "editedAt" -> "edited_at"
      [] OTHER -> "id"

getOrderBy(orderBy) == IF orderBy = "asc" THEN "ASC" ELSE "DESC"

\* The strings of the model in the order the database compares them.
StringOrder == <<"", "complete", "d1", "incomplete", "t1", "t2">>
Rank(s) == CHOOSE i \in 1..Len(StringOrder) : StringOrder[i] = s

\* a <= b in column col; NULL sorts as larger than every value.
KeyLeq(a, b, col) ==
    IF col = "id" THEN a <= b
    ELSE IF col \in {"title", "description", "status"} THEN Rank(a) <= Rank(b)
    ELSE b = NULL \/ (a # NULL /\ a[1] <= b[1])

Ordered(rows, col, dir) ==
    \A i, j \in 1..Len(rows) :
        i < j => IF dir = "ASC" THEN KeyLeq(rows[i][col], rows[j][col], col)
                 ELSE KeyLeq(rows[j][col], rows[i][col], col)

\* The statement readAll builds is malformed when the ASC/DESC fragment is there
\* and the ORDER BY fragment is not.
ReadAllFails(sortBy, orderBy) == Truthy(orderBy) /\ ~Truthy(sortBy)

\* Every row sequence the SELECT of readAll may return (ties and an absent
\* ORDER BY leave the order to the database).
ReadAllRows(table, filters, sortBy, orderBy) ==
    LET match == {i \in DOMAIN table :
                    Truthy(filters.status) => table[i].status = filters.status}
        n == Cardinality(match)
        perms == {s \in [1..n -> match] : \A i, j \in 1..n : s[i] = s[j] => i = j}
        dir == IF Truthy(orderBy) THEN getOrderBy(orderBy) ELSE "ASC"
    IN  {rows \in {[i \in 1..n |-> table[s[i]]] : s \in perms} :
            Truthy(sortBy) => Ordered(rows, getSortBy(sortBy), dir)}

\* ---------------------------------------------------------------- Todo, after the query
\* What each entity operation returns from the rows of its query.
\* Todo_create with a slip: createdAt is stamped whether or not one was given.
Todo_create_stamped(props, t) ==
    [k \in DOMAIN props \cup {"createdAt"} |->
        IF k = "createdAt" THEN Date(t) ELSE props[k]]

Todo_create(props, t) ==
    [k \in DOMAIN props \cup {"createdAt"} |->
        IF k = "createdAt"
        THEN (IF "createdAt" \in DOMAIN props /\ props.createdAt # NULL
              THEN props.createdAt ELSE Date(t))
        ELSE props[k]]

Todo_new(row) == convertToCase(snakeToCamel, row)

Todo_read(rows) == IF rows = <<>> THEN <<>> ELSE <<Todo_new(rows[1])>>

Todo_readAll(rows) == [i \in 1..Len(rows) |-> Todo_new(rows[i])]

\* this.props = { ...this.props, ...convertToCase(snakeToCamel, row) }
Todo_update(props, row) ==
    LET new == convertToCase(snakeToCamel, row)
    IN  [k \in DOMAIN props \cup DOMAIN new |->
            IF k \in DOMAIN new THEN new[k] ELSE props[k]]

\* Todo_delete with a slip: any affected-row count passes for success.
Todo_delete_any(count) == count >= 0

Todo_delete(count) == count = 1

\* Todo_markComplete with a slip: the status is set without completedAt.
Todo_markComplete_statusOnly(t) == [status |-> "complete"]

Todo_markComplete(t) == [status |-> "complete", completedAt |-> Date(t)]

\* ---------------------------------------------------------------- state
VARIABLES
    todos,      \* the table: id -> row, for the ids stored
    nextId,     \* the serial that numbers the next inserted row
    reserved,   \* connections reserved from the pool and not released
    now,        \* the time createUTCDate() last read
    faults,     \* storage errors so far
    proc,       \* the requests in flight, one record per slot
    deleted200, \* per id, the deleteTodo requests answered 200 so far
    served      \* requests accepted so far

vars == <<todos, nextId, reserved, now, faults, proc, deleted200, served>>

\* A slot: pc is the await the handler is at, req the request, args/op/ret the
\* pending entity operation and its rows, todoProps/todo/todos the handler's
\* locals, responses the calls of res.send.  Two fields only record facts for
\* the properties: threw (an entity operation threw) and found (whether the
\* SELECT of Todo.read matched a row: "yes", "no", "" before it ran).
NoReq == [handler |-> "", id |-> NaN, query |-> <<>>, body |-> <<>>]

Idle ==
    [pc |-> "idle", req |-> NoReq, args |-> <<>>, op |-> "", ret |-> <<>>,
     todoProps |-> <<>>, todo |-> <<>>, todos |-> <<>>, responses |-> <<>>,
     threw |-> FALSE, found |-> ""]

\* req.body.k and queryParams.get(k)
Get(m, k) == IF k \in DOMAIN m THEN m[k] ELSE undefined

\* await res.send({ statusCode, message, payload })
send(pr, statusCode, payload) ==
    [pr EXCEPT !.responses = Append(@, [statusCode |-> statusCode, payload |-> payload])]

\* The handler returns (or runs off its end).
return(pr) == [pr EXCEPT !.pc = "done"]

\* The handler awaits an entity operation.
await(pr, op, args) == [pr EXCEPT !.pc = op, !.args = args, !.op = "", !.ret = <<>>]

\* ---------------------------------------------------------------- TodoController
isSortByValid(sortBy) ==
    sortBy \in {"id", "title", "description", "dueAt", "createdAt", "updatedAt"}

isOrderByValid(orderBy) == orderBy \in {"asc", "desc"}

\* getTodoList up to its first await of storage.
getTodoList(pr) ==
    LET queryParams == pr.req.query
        statusFilter == Get(queryParams, "status")
        sortBy == IF Get(queryParams, "sortBy") = undefined THEN "id"
                  ELSE queryParams.sortBy
        orderBy == IF Get(queryParams, "orderBy") = undefined THEN "asc"
                   ELSE queryParams.orderBy
    IN  IF Truthy(statusFilter) /\ statusFilter # "incomplete"
           /\ statusFilter # "complete"
        THEN return(send(pr, StatusCode.BadRequest, <<>>))
        ELSE IF Truthy(sortBy) /\ ~isSortByValid(sortBy)
        THEN return(send(pr, StatusCode.BadRequest, <<>>))
        ELSE IF Truthy(orderBy) /\ ~isOrderByValid(orderBy)
        THEN return(send(pr, StatusCode.BadRequest, <<>>))
        ELSE await(pr, "readAll",
                   [filters |-> [status |-> statusFilter], sortBy |-> sortBy,
                    orderBy |-> orderBy])

\* Todo.readAll returned pr.todos.
getTodoList_then(pr) == return(send(pr, StatusCode.OK, pr.todos))

\* Todo.readAll threw: the catch block sends, and the handler goes on past it.
getTodoList_catch(pr) ==
    getTodoList_then(send(pr, StatusCode.InternalServerError, <<>>))

getTodo(pr) ==
    IF isNaN(pr.req.id)
    THEN return(send(pr, StatusCode.BadRequest, <<>>))
    ELSE await(pr, "read", pr.req.id)

\* getTodo_then with a slip: the test of `todo` is inverted.
getTodo_then_inverted(pr) ==
    IF pr.todo = <<>>
    THEN return(send(pr, StatusCode.OK, pr.todo))
    ELSE return(send(pr, StatusCode.NotFound, <<>>))

getTodo_then(pr) ==
    IF pr.todo # <<>>
    THEN return(send(pr, StatusCode.OK, pr.todo))
    ELSE return(send(pr, StatusCode.NotFound, <<>>))

getTodo_catch(pr) ==
    getTodo_then(send(pr, StatusCode.InternalServerError, <<>>))

\* createUTCDate(new Date(s)) of the date strings of the model.
createUTCDate(s) == IF s = "2022-12-31" THEN Date(1) ELSE Date(2)

createTodo(pr, t) ==
    LET body == pr.req.body
        todoProps == [title |-> Get(body, "title"),
                      description |-> Get(body, "description"),
                      status |-> "incomplete", createdAt |-> Date(t)]
    IN  await(pr, "create",
              IF Truthy(Get(body, "dueAt"))
              THEN [k \in DOMAIN todoProps \cup {"dueAt"} |->
                        IF k = "dueAt" THEN createUTCDate(body.dueAt)
                        ELSE todoProps[k]]
              ELSE todoProps)

\* Past the try block: pr.todo is still null when Todo.create threw.
createTodo_then(pr) ==
    IF pr.todo = <<>>
    THEN return(send(pr, StatusCode.InternalServerError, <<>>))
    ELSE return(send(pr, StatusCode.Created, pr.todo))

\* The catch block logs, and the handler goes on past it.
createTodo_catch(pr) == createTodo_then(pr)

\* The todoProps updateTodo builds from the body: three keys and no other.
updateTodo_props(body) ==
    LET keys == {k \in {"title", "description", "dueAt"} : Truthy(Get(body, k))}
    IN  [k \in keys |-> IF k = "dueAt" THEN createUTCDate(body[k]) ELSE body[k]]

updateTodo(pr) ==
    IF isNaN(pr.req.id)
    THEN return(send(pr, StatusCode.BadRequest, <<>>))
    ELSE [await(pr, "read", pr.req.id) EXCEPT !.todoProps = updateTodo_props(pr.req.body)]

\* Todo.read or todo.update returned (pr.op says which).
updateTodo_then(pr) ==
    IF pr.op = "read"
    THEN IF pr.todo # <<>>
         THEN await(pr, "update", pr.todoProps)
         ELSE return(send(pr, StatusCode.NotFound, <<>>))
    ELSE return(send(pr, StatusCode.OK, pr.todo))

\* The catch block logs and sends nothing.
updateTodo_catch(pr) == return(pr)

deleteTodo(pr) ==
    IF isNaN(pr.req.id)
    THEN return(send(pr, StatusCode.BadRequest, <<>>))
    ELSE await(pr, "read", pr.req.id)

\* Todo.read or todo.delete returned; after delete pr.ret holds its boolean.
deleteTodo_then(pr) ==
    IF pr.op = "read"
    THEN IF pr.todo = <<>>
         THEN return(send(pr, StatusCode.NotFound, <<>>))
         ELSE await(pr, "delete", pr.todo[1].id)
    ELSE IF pr.ret[1]
         THEN return(send(pr, StatusCode.OK, pr.todo))
         ELSE return(send(pr, StatusCode.InternalServerError, <<>>))

deleteTodo_catch(pr) == return(pr)

completeTodo(pr) ==
    IF isNaN(pr.req.id)
    THEN return(send(pr, StatusCode.BadRequest, <<>>))
    ELSE await(pr, "read", pr.req.id)

\* Todo.read or todo.markComplete returned; markComplete is one call of update.
completeTodo_then(pr, t) ==
    IF pr.op = "read"
    THEN IF pr.todo # <<>>
         THEN await(pr, "update", Todo_markComplete(t))
         ELSE return(send(pr, StatusCode.NotFound, <<>>))
    ELSE return(send(pr, StatusCode.OK, pr.todo))

completeTodo_catch(pr) == return(pr)

\* ---------------------------------------------------------------- dispatch
\* Router: the handler registered for the request runs up to its first await.
Begin(pr, t) ==
    CASE pr.req.handler = "getTodoList" -> getTodoList(pr)
      [] pr.req.handler = "getTodo" -> getTodo(pr)
      [] pr.req.handler = "createTodo" -> createTodo(pr, t)
      [] pr.req.handler = "updateTodo" -> updateTodo(pr)
      [] pr.req.handler = "deleteTodo" -> deleteTodo(pr)
      [] pr.req.handler = "completeTodo" -> completeTodo(pr)

\* The awaited entity operation returned: the handler goes on.
Then(pr, t) ==
    CASE pr.req.handler = "getTodoList" -> getTodoList_then(pr)
      [] pr.req.handler = "getTodo" -> getTodo_then(pr)
      [] pr.req.handler = "createTodo" -> createTodo_then(pr)
      [] pr.req.handler = "updateTodo" -> updateTodo_then(pr)
      [] pr.req.handler = "deleteTodo" -> deleteTodo_then(pr)
      [] pr.req.handler = "completeTodo" -> completeTodo_then(pr, t)

\* The awaited entity operation threw: the handler's catch block runs.
Catch(pr) ==
    LET e == [pr EXCEPT !.threw = TRUE]
    IN  CASE pr.req.handler = "getTodoList" -> getTodoList_catch(e)
          [] pr.req.handler = "getTodo" -> getTodo_catch(e)
          [] pr.req.handler = "createTodo" -> createTodo_catch(e)
          [] pr.req.handler = "updateTodo" -> updateTodo_catch(e)
          [] pr.req.handler = "deleteTodo" -> deleteTodo_catch(e)
          [] pr.req.handler = "completeTodo" -> completeTodo_catch(e)

\* ---------------------------------------------------------------- requests
Ids == 1..MaxId \cup {NaN}

\* Bodies of POST /todos: two complete ones and one without a title.
CreateBodies ==
    {[title |-> "t1", description |-> "d1"],
     [title |-> "t2", description |-> "d1", dueAt |-> "2022-12-31"],
     [description |-> "d1"]}

\* Bodies of PUT /todos/:id: one with the three editable fields, and one with
\* none of them and two fields the handler does not read.
UpdateBodies ==
    {[title |-> "t2", description |-> "d1", dueAt |-> "2022-12-31"],
     [status |-> "complete", completedAt |-> "2022-12-31"]}

Queries ==
    {[k \in {} |-> ""],
     [status |-> "complete"], [status |-> "bogus"],
     [sortBy |-> "status"], [sortBy |-> "updatedAt"], [sortBy |-> ""],
     [sortBy |-> "createdAt", orderBy |-> "desc"], [orderBy |-> "ASC"]}

Requests ==
    {[handler |-> "getTodoList", id |-> NaN, query |-> q, body |-> <<>>] :
        q \in Queries}
    \cup {[handler |-> h, id |-> i, query |-> <<>>, body |-> <<>>] :
            h \in {"getTodo", "deleteTodo", "completeTodo"}, i \in Ids}
    \cup {[handler |-> "createTodo", id |-> NaN, query |-> <<>>, body |-> b] :
            b \in CreateBodies}
    \cup {[handler |-> "updateTodo", id |-> i, query |-> <<>>, body |-> b] :
            i \in Ids, b \in UpdateBodies}

\* ---------------------------------------------------------------- steps
Init ==
    /\ todos = [i \in {} |-> <<>>]
    /\ nextId = 1
    /\ reserved = 0
    /\ now = 1
    /\ faults = 0
    /\ proc = [p \in Procs |-> Idle]
    /\ deleted200 = [i \in 1..MaxId |-> 0]
    /\ served = 0

\* The deleteTodo requests that this step answers 200, counted per id.
Count200(p, after) ==
    IF /\ after.req.handler = "deleteTodo"
       /\ after.pc = "done"
       /\ \E i \in 1..Len(after.responses) :
            after.responses[i].statusCode = StatusCode.OK
    THEN [deleted200 EXCEPT ![after.req.id] = @ + 1]
    ELSE deleted200

\* proc[p] goes on as `after`.
Goes(p, after) ==
    /\ proc' = [proc EXCEPT ![p] = after]
    /\ deleted200' = Count200(p, after)

\* The query of the operation succeeded: its rows are kept until the release.
Returns(p, rows) ==
    /\ reserved' = reserved + 1
    /\ Goes(p, [proc[p] EXCEPT !.pc = "release", !.op = proc[p].pc, !.ret = rows])

\* The query threw after the connection was reserved: the operation is left
\* without reaching connection.release().
Throws(p) ==
    /\ reserved' = reserved + 1
    /\ Goes(p, Catch(proc[p]))

\* createUTCDate(): the clock is read, at a time not before the last reading.
\* A step that does not read the clock leaves it alone.
Clock(reads) == IF reads THEN now..MaxTime ELSE {now}

\* A request arrives and its handler runs up to its first await.
request(p) ==
    /\ proc[p].pc = "idle"
    /\ served < MaxRequests
    /\ served' = served + 1
    /\ \E req \in Requests :
        /\ req.handler = "createTodo" =>
             nextId + Cardinality({q \in Procs : proc[q].pc = "create"}) <= MaxId
        /\ \E t \in Clock(req.handler = "createTodo") :
             /\ now' = t
             /\ Goes(p, Begin([Idle EXCEPT !.req = req], t))
    /\ UNCHANGED <<todos, nextId, reserved, faults>>

\* Todo.create: reserve, INSERT ... RETURNING *.
create(p) ==
    /\ proc[p].pc = "create"
    /\ reserved < PoolMax
    /\ \E t \in Clock(\/ "createdAt" \notin DOMAIN proc[p].args
                      \/ proc[p].args.createdAt = NULL) :
        LET props == Todo_create(proc[p].args, t)
            cols == convertToCase(camelToSnake, props)
            row == InsertRow(nextId, cols)
        IN  /\ now' = t
            /\ IF InsertFails(cols)
               THEN Throws(p) /\ UNCHANGED <<todos, nextId>>
               ELSE /\ todos' = [i \in DOMAIN todos \cup {nextId} |->
                                    IF i = nextId THEN row ELSE todos[i]]
                    /\ nextId' = nextId + 1
                    /\ Returns(p, <<row>>)
    /\ UNCHANGED <<faults, served>>

\* Todo.read: reserve, SELECT * FROM todos WHERE id = ${id}.
read(p) ==
    /\ proc[p].pc = "read"
    /\ reserved < PoolMax
    /\ LET id == proc[p].args
           rows == IF id \in DOMAIN todos THEN <<todos[id]>> ELSE <<>>
       IN  /\ reserved' = reserved + 1
           /\ Goes(p, [proc[p] EXCEPT !.pc = "release", !.op = "read", !.ret = rows,
                                      !.found = IF id \in DOMAIN todos THEN "yes"
                                                ELSE "no"])
    /\ UNCHANGED <<todos, nextId, now, faults, served>>

\* Todo.readAll: reserve, SELECT with the optional WHERE and ORDER BY.
readAll(p) ==
    /\ proc[p].pc = "readAll"
    /\ reserved < PoolMax
    /\ LET a == proc[p].args
       IN  IF ReadAllFails(a.sortBy, a.orderBy)
           THEN Throws(p)
           ELSE \E rows \in ReadAllRows(todos, a.filters, a.sortBy, a.orderBy) :
                    Returns(p, rows)
    /\ UNCHANGED <<todos, nextId, now, faults, served>>

\* SET ${sql(cols)}, edited_at = ...: with no column in cols the SET list
\* starts with a comma and the statement is rejected.
UpdateFails(cols) == DOMAIN cols = {}

\* todo.update (and so todo.markComplete): reserve, UPDATE ... RETURNING *.
update(p) ==
    /\ proc[p].pc = "update"
    /\ reserved < PoolMax
    /\ \E t \in Clock(TRUE) :
        LET id == proc[p].todo[1].id
            cols == convertToCase(camelToSnake, proc[p].args)
        IN  /\ now' = t
            /\ IF UpdateFails(cols)
               THEN Throws(p) /\ UNCHANGED todos
               ELSE IF id \in DOMAIN todos
               THEN /\ todos' = [todos EXCEPT ![id] = UpdateRow(@, cols, t)]
                    /\ Returns(p, <<UpdateRow(todos[id], cols, t)>>)
               ELSE Returns(p, <<>>) /\ UNCHANGED todos
    /\ UNCHANGED <<nextId, faults, served>>

\* todo.delete: reserve, DELETE FROM todos WHERE id = ${this.props.id}.
delete(p) ==
    /\ proc[p].pc = "delete"
    /\ reserved < PoolMax
    /\ LET r == DeleteRow(todos, proc[p].args)
       IN  todos' = r.table /\ Returns(p, <<r.count>>)
    /\ UNCHANGED <<nextId, now, faults, served>>

\* The entity operation's statements after its query: what it leaves the handler.
Returned(pr) ==
    CASE pr.op = "create" -> [pr EXCEPT !.todo = <<Todo_new(pr.ret[1])>>]
      [] pr.op = "read" -> [pr EXCEPT !.todo = Todo_read(pr.ret)]
      [] pr.op = "readAll" -> [pr EXCEPT !.todos = Todo_readAll(pr.ret)]
      [] pr.op = "update" ->
            [pr EXCEPT !.todo = IF pr.ret = <<>> THEN @
                                ELSE <<Todo_update(@[1], pr.ret[1])>>]
      [] pr.op = "delete" -> [pr EXCEPT !.ret = <<Todo_delete(pr.ret[1])>>]

\* connection.release(), the rest of the entity operation, and the handler up
\* to its next await.  An UPDATE that matched no row returns no row, and what
\* convertToCase makes of `undefined` is not fixed: it throws or yields nothing.
release(p) ==
    /\ proc[p].pc = "release"
    /\ reserved' = reserved - 1
    /\ \/ \E t \in Clock(/\ proc[p].req.handler = "completeTodo"
                          /\ proc[p].op = "read"
                          /\ proc[p].ret # <<>>) :
             /\ now' = t
             /\ Goes(p, Then(Returned(proc[p]), t))
       \/ /\ proc[p].op = "update" /\ proc[p].ret = <<>>
          /\ Goes(p, Catch(proc[p]))
          /\ now' = now
    /\ UNCHANGED <<todos, nextId, faults, served>>

\* A storage error that is not the request's doing (a lost connection, a
\* timeout): sql.reserve() throws, or the query throws with the connection
\* reserved.
storageError(p) ==
    /\ proc[p].pc \in {"create", "read", "readAll", "update", "delete"}
    /\ faults < MaxFaults
    /\ faults' = faults + 1
    /\ \/ reserved < PoolMax /\ Throws(p)
       \/ reserved' = reserved /\ Goes(p, Catch(proc[p]))
    /\ UNCHANGED <<todos, nextId, now, served>>

\* The request is over; its slot takes the next one.
finish(p) ==
    /\ proc[p].pc = "done"
    /\ proc' = [proc EXCEPT ![p] = Idle]
    /\ UNCHANGED <<todos, nextId, reserved, now, faults, deleted200, served>>

\* A handler that has returned leaves its slot before any other step: the
\* record of a finished request is kept for that one state only.
Running == \A q \in Procs : proc[q].pc # "done"

Next ==
    \/ \E p \in Procs : Running /\ request(p)
    \/ \E p \in Procs : Running /\ create(p)
    \/ \E p \in Procs : Running /\ read(p)
    \/ \E p \in Procs : Running /\ readAll(p)
    \/ \E p \in Procs : Running /\ update(p)
    \/ \E p \in Procs : Running /\ delete(p)
    \/ \E p \in Procs : Running /\ release(p)
    \/ \E p \in Procs : Running /\ storageError(p)
    \/ \E p \in Procs : finish(p)

Spec == Init /\ [][Next]_vars

\* ---------------------------------------------------------------- properties
\* The status codes a request was answered with, in order.
Codes(pr) == [i \in 1..Len(pr.responses) |-> pr.responses[i].statusCode]

ById == {"getTodo", "updateTodo", "deleteTodo", "completeTodo"}

\* The columns Todo.readAll can order by (section 4.2 of the specification).
SortWhitelist ==
    {"title", "description", "status", "dueAt", "createdAt", "completedAt",
     "editedAt"}

\* A request the validation rules of section 4.4 reject.  An empty query value
\* is read as an absent one here, as the handler reads it.
FailsValidation(req) ==
    IF req.handler = "getTodoList"
    THEN LET status == Get(req.query, "status")
             sortBy == Get(req.query, "sortBy")
             orderBy == Get(req.query, "orderBy")
         IN  \/ Truthy(status) /\ status \notin {"incomplete", "complete"}
             \/ Truthy(sortBy) /\ sortBy \notin SortWhitelist \cup {"id"}
             \/ Truthy(orderBy) /\ orderBy \notin {"asc", "desc"}
    ELSE req.handler \in ById /\ isNaN(req.id)

\* C1: a request that fails validation is answered 400 by the handler's first
\* synchronous run, so it never awaits an entity operation: it is found only
\* finished, with the single response 400 and nothing thrown.
C1_InvalidRequestIs400 ==
    \A p \in Procs :
        FailsValidation(proc[p].req) =>
            /\ proc[p].pc = "done"
            /\ Codes(proc[p]) = <<StatusCode.BadRequest>>
            /\ ~proc[p].threw

\* C2: a finished request one of whose entity operations threw was answered 500.
C2_ThrowIsAnswered500 ==
    \A p \in Procs :
        proc[p].pc = "done" /\ proc[p].threw =>
            \E i \in 1..Len(proc[p].responses) :
                proc[p].responses[i].statusCode = StatusCode.InternalServerError

\* C3: no request is answered more than once.
C3_SingleResponse == \A p \in Procs : Len(proc[p].responses) <= 1

\* C4: while no entity operation holds a connection for its query, no
\* connection is reserved.
C4_NoConnectionLeft ==
    (\A p \in Procs : proc[p].pc # "release") => reserved = 0

\* C5: when the SELECT of Todo.read matches no row, read returns null without
\* throwing, the handler answers 404 and nothing else, and the request never
\* goes on to an update or a delete (the steps that change the table).
C5_AbsentIdIs404 ==
    \A p \in Procs :
        proc[p].found = "no" =>
            /\ proc[p].req.handler \in ById
            /\ ~proc[p].threw
            /\ proc[p].todo = <<>>
            /\ \/ proc[p].pc = "release" /\ proc[p].op = "read" /\ proc[p].ret = <<>>
               \/ /\ proc[p].pc = "done"
                  /\ proc[p].op = "read"
                  /\ Codes(proc[p]) = <<StatusCode.NotFound>>

C5_Witness ==
    \E p \in Procs :
        /\ proc[p].req.handler = "completeTodo"
        /\ proc[p].pc = "done"
        /\ proc[p].found = "no"
        /\ proc[p].req.id \notin DOMAIN todos
        /\ DOMAIN todos # {}
        /\ Codes(proc[p]) = <<StatusCode.NotFound>>

\* C6: every stored todo whose status is "complete" has a completedAt.
C6_CompleteHasCompletedAt ==
    \A i \in DOMAIN todos :
        todos[i].status = "complete" => todos[i].completed_at # NULL

C6_Witness ==
    \E i \in DOMAIN todos :
        /\ todos[i].status = "complete"
        /\ todos[i].completed_at # NULL
        /\ todos[i].title = "t2"

\* C7: among getTodoList requests whose other parameters pass, a sortBy value
\* is answered 400 exactly when it is none of the columns readAll can order by.
C7_SortByAcceptedIffWhitelisted ==
    \A p \in Procs :
        LET q == proc[p].req.query
        IN  /\ proc[p].req.handler = "getTodoList"
            /\ DOMAIN q = {"sortBy"}
            => ((proc[p].pc = "done" /\ Codes(proc[p]) = <<StatusCode.BadRequest>>)
                    <=> q.sortBy \notin SortWhitelist)

\* C8: a createTodo request whose body has a title and a description, and whose
\* insert does not throw, is answered 201 and nothing else; the entity it sends
\* has the body's title and description, status "incomplete", no completedAt,
\* the createdAt the handler provided and the id of a row inserted.
C8_CreatedIsIncomplete ==
    \A p \in Procs :
        LET pr == proc[p]
        IN  /\ pr.req.handler = "createTodo"
            /\ pr.pc = "done"
            /\ {"title", "description"} \subseteq DOMAIN pr.req.body
            /\ ~pr.threw
            => /\ Codes(pr) = <<StatusCode.Created>>
               /\ pr.responses[1].payload = pr.todo
               /\ Len(pr.todo) = 1
               /\ pr.todo[1].title = pr.req.body.title
               /\ pr.todo[1].description = pr.req.body.description
               /\ pr.todo[1].status = "incomplete"
               /\ pr.todo[1].completedAt = NULL
               /\ pr.todo[1].createdAt = pr.args.createdAt
               /\ pr.todo[1].id \in 1..(nextId - 1)

C8_Witness ==
    \E p \in Procs :
        /\ proc[p].req.handler = "createTodo"
        /\ proc[p].pc = "done"
        /\ Codes(proc[p]) = <<StatusCode.Created>>
        /\ proc[p].todo[1].status = "incomplete"
        /\ proc[p].todo[1].createdAt # Date(now)

\* C9, the states: no id has two deleteTodo requests answered 200, and once one
\* is answered 200 the row is gone for good; a deleteTodo request that threw
\* nothing is answered once: 404 when its read found no row (so every request
\* that reads after the row is gone), 200 with the todo when its delete
\* returned true, 500 when its delete returned false.
C9_State ==
    /\ \A i \in 1..MaxId :
        /\ deleted200[i] <= 1
        /\ deleted200[i] >= 1 => i \notin DOMAIN todos
    /\ \A p \in Procs :
        LET pr == proc[p]
        IN  pr.req.handler = "deleteTodo" /\ pr.pc = "done" /\ ~pr.threw
            /\ ~isNaN(pr.req.id)
            => /\ pr.found = "no" => Codes(pr) = <<StatusCode.NotFound>>
               /\ pr.found = "yes" =>
                    /\ pr.op = "delete"
                    /\ pr.ret = <<TRUE>> =>
                         /\ Codes(pr) = <<StatusCode.OK>>
                         /\ pr.responses[1].payload = pr.todo
                         /\ pr.req.id \notin DOMAIN todos
                    /\ pr.ret = <<FALSE>> =>
                         Codes(pr) = <<StatusCode.InternalServerError>>

\* C9, the steps: the DELETE of a deleteTodo request removes the row of the
\* request's id and no other, and counts one row exactly when the row was there.
C9_Step ==
    \A p \in Procs :
        proc[p].pc = "delete" /\ proc'[p].pc = "release" =>
            LET id == proc[p].req.id
            IN  /\ todos' = [i \in DOMAIN todos \ {id} |-> todos[i]]
                /\ proc'[p].ret = <<IF id \in DOMAIN todos THEN 1 ELSE 0>>

\* C9: of two deleteTodo requests on one stored id, the first removes exactly
\* that row, its delete returns true and it is answered 200; one that starts
\* after it is answered 404; and never are both answered 200.
C9_DeleteTwice == []C9_State /\ [][C9_Step]_vars

C9_Witness ==
    \E p \in Procs :
        /\ proc[p].req.handler = "deleteTodo"
        /\ proc[p].pc = "done"
        /\ ~isNaN(proc[p].req.id)
        /\ deleted200[proc[p].req.id] = 1
        /\ proc[p].found = "no"
        /\ Codes(proc[p]) = <<StatusCode.NotFound>>

\* What the UPDATE of an updateTodo request may change: of the row of the
\* request's id the title, description, due_at and edited_at, and nothing else.
UpdateTodoFrame(p) ==
    LET id == proc[p].req.id
    IN  /\ DOMAIN todos' = DOMAIN todos
        /\ \A j \in DOMAIN todos \ {id} : todos'[j] = todos[j]
        /\ \A c \in {"id", "status", "created_at", "completed_at"} :
             todos'[id][c] = todos[id][c]

\* C10: the update step of an updateTodo request on a stored id, with no
\* storage error injected, keeps to that frame and stamps the row's edited_at
\* with the time read in that step, whatever the body.
C10_Step ==
    \A p \in Procs :
        /\ proc[p].req.handler = "updateTodo"
        /\ proc[p].pc = "update"
        /\ proc'[p] # proc[p]
        /\ faults' = faults
        /\ proc[p].req.id \in DOMAIN todos
        => /\ UpdateTodoFrame(p)
           /\ todos'[proc[p].req.id].edited_at = Date(now')

C10_UpdateStampsWithinFrame == [][C10_Step]_vars

====
